---- MODULE Spec2Model ----
(***************************************************************************)
(* Order lifecycle, wallet ledger and referral rewards of the restaurant   *)
(* ordering backend.  The orders, users and wallet transactions are the    *)
(* MongoDB collections; every request handler is an async function, so a   *)
(* handler is split at its awaits: each datastore read or write is one     *)
(* atomic step, and the synchronous code that follows an await belongs to  *)
(* the step of that await.                                                 *)
(***************************************************************************)
EXTENDS Integers, Sequences, FiniteSets, TLC

\* ------------------------------------------------------------------ bounds
MaxOrders == 2      \* order documents the collection can hold
MaxHist == 6        \* longest statusHistory a status request is started on
MaxSvcCalls == 1    \* order-service status updates started in a behaviour
MaxRaces == 1       \* requests or calls started while another one is in flight
MaxUsers == 2       \* user documents
MaxBalance == 5     \* most that direct credits add to one wallet
MaxRuns == 2        \* processReferralReward runs started for one order
MaxHandles == 2     \* SSE handles followed one by one
MaxUpdates == 2     \* status updates of an order that subscribers follow

OrderIds == 1..MaxOrders
UserIds == 1..MaxUsers
NoUser == 0
Slots == {1, 2}     \* requests that can be in flight at the same time
NoOrder == 0

\* ------------------------------------------------------- program constants
RECEIVED == "RECEIVED"
CONFIRMED == "CONFIRMED"
PREPARING == "PREPARING"
READY == "READY"
OUT_FOR_DELIVERY == "OUT_FOR_DELIVERY"
COMPLETED == "COMPLETED"
CANCELLED == "CANCELLED"

ORDER_STATUS ==
  {RECEIVED, CONFIRMED, PREPARING, READY, OUT_FOR_DELIVERY, COMPLETED, CANCELLED}

\* a request body may carry a string that is no order status
BOGUS == "BOGUS"
StatusInputs == ORDER_STATUS \cup {BOGUS}

STATUS_FLOW ==
  [s \in ORDER_STATUS |->
     CASE s = RECEIVED -> {CONFIRMED, CANCELLED}
       [] s = CONFIRMED -> {PREPARING, CANCELLED}
       [] s = PREPARING -> {READY, CANCELLED}
       [] s = READY -> {OUT_FOR_DELIVERY, CANCELLED}
       [] s = OUT_FOR_DELIVERY -> {COMPLETED}
       [] s = COMPLETED -> {}
       [] s = CANCELLED -> {}]

\* the lookup with its arguments exchanged
validateStatusTransition_swapped(currentStatus, newStatus) ==
  IF newStatus \notin DOMAIN STATUS_FLOW
    THEN FALSE
    ELSE currentStatus \in STATUS_FLOW[newStatus]

validateStatusTransition(currentStatus, newStatus) ==
  IF currentStatus \notin DOMAIN STATUS_FLOW
    THEN FALSE
    ELSE newStatus \in STATUS_FLOW[currentStatus]

\* the lookup that always takes the `|| []` side
getAllowedNextStatuses_empty(currentStatus) == {}

getAllowedNextStatuses(currentStatus) ==
  IF currentStatus \in DOMAIN STATUS_FLOW THEN STATUS_FLOW[currentStatus] ELSE {}

\* the three exported status writers
CTL14 == "controller_v2"    \* order controller, seeds an empty history
CTL15 == "controller_v1"    \* order controller, seeds a missing history
SVC == "service"            \* order service, called by the admin controller
Handlers == {CTL14, CTL15, SVC}
Controllers == {CTL14, CTL15}

VARIABLES
  orders,     \* the orders collection: OrderIds -> document
  req,        \* Slots -> the status request in flight in that slot
  res,        \* the response sent by the latest step (NoRes when it sent none)
  users,      \* the users collection: UserIds -> document
  log,        \* the wallettransactions collection, in insertion order
  wcall,      \* Slots -> the creditWallet / debitWallet call of that slot
  wres,       \* the result the latest finished direct wallet call gave its caller
  proc,       \* Slots -> the processReferralReward run of that slot
  hist,       \* what has happened so far (history variables, no program state)
  vcall,      \* the validateWalletUsage call
  clients,    \* OrderEventManager.clients: key -> the handles subscribed to it
  conn,       \* Handles -> the SSE request that owns the handle
  bcast,      \* the latest broadcastOrderUpdate call and the writes it made
  pend,       \* Slots -> the broadcast a status request has still to make
  seen,       \* Handles -> the statuses the subscriber has been sent
  acall,      \* Slots -> the applyReferralCode call of that slot
  ocall,      \* Slots -> the createOrder request of that slot
  lk          \* the latest identifier resolved on the read and the write path

ovars == <<orders, req, res>>
wvars == <<users, log, wcall, wres>>
uvars == <<vcall>>
evars == <<clients, conn, bcast>>
lvars == <<pend, seen, acall, ocall, lk>>
vars ==
  <<orders, req, res, users, log, wcall, wres, proc, hist, vcall, clients, conn, bcast,
    pend, seen, acall, ocall, lk>>

\* ------------------------------------------------------------- documents
Entry(s, by) == [status |-> s, updatedBy |-> by]

AbsentOrder ==
  [exists |-> FALSE, user |-> NoUser, totalAmount |-> 0,
   status |-> RECEIVED, statusHistory |-> <<>>, v |-> 0,
   preparedAt |-> FALSE, deliveredAt |-> FALSE, cancelledAt |-> FALSE]

\* createOrder stores no statusHistory (the schema default is the empty
\* array); verifyPayment stores the RECEIVED entry.
NewOrder(u, total, seeded) ==
  [exists |-> TRUE, user |-> u, totalAmount |-> total, status |-> RECEIVED,
   statusHistory |-> IF seeded THEN <<Entry(RECEIVED, "owner")>> ELSE <<>>,
   v |-> 0,
   preparedAt |-> FALSE, deliveredAt |-> FALSE, cancelledAt |-> FALSE]

IdleReq ==
  [pc |-> "idle", handler |-> CTL14, id |-> NoOrder, target |-> RECEIVED,
   from |-> RECEIVED, op |-> "none", doc |-> <<>>, v |-> 0]

NoRes ==
  [slot |-> 0, kind |-> "none", id |-> NoOrder, allowed |-> {},
   from |-> RECEIVED, to |-> RECEIVED]
Res(r, k, id, a, f, t) ==
  [slot |-> r, kind |-> k, id |-> id, allowed |-> a, from |-> f, to |-> t]

NoRequestActive == \A r \in Slots : req[r].pc = "idle"

\* ------------------------------------------------------ status requests
\* Order.findById / Order.findOne({orderId}): the document the id names.
FindOrder(id) == IF id \in OrderIds /\ orders[id].exists THEN id ELSE NoOrder

\* `!order.statusHistory` of controller_v1 is never true of a Mongoose
\* document: an array path is hydrated as an array, and an array is truthy.
NeedsSeed(handler, statusHistory) ==
  IF handler = CTL14 THEN Len(statusHistory) = 0 ELSE FALSE

\* The request arrives.  The controllers reject a status outside
\* ORDER_STATUS before they read anything; the service checks nothing.
BeginStatus(r, h, id, t) ==
  /\ req[r].pc = "idle"
  /\ id \in OrderIds => Len(orders[id].statusHistory) < MaxHist
  /\ h = SVC => hist.svcCalls < MaxSvcCalls
  /\ ~NoRequestActive => hist.races < MaxRaces
  /\ hist' = [hist EXCEPT !.svcCalls = IF h = SVC THEN @ + 1 ELSE @,
                          !.races = IF NoRequestActive THEN @ ELSE @ + 1]
  /\ IF h \in Controllers /\ t \notin ORDER_STATUS
       THEN /\ res' = Res(r, "invalid_status", id, {}, RECEIVED, t)
            /\ req' = req
       ELSE /\ res' = NoRes
            /\ req' = [req EXCEPT ![r] =
                 [IdleReq EXCEPT !.pc = "find", !.handler = h, !.id = id,
                                 !.target = t]]
  /\ UNCHANGED <<orders, wvars, proc>>

\* The lookup returns, and the handler runs up to its order.save().
FindStatus(r) ==
  /\ req[r].pc = "find"
  /\ LET q == req[r]
         o == FindOrder(q.id)
     IN IF o = NoOrder
          THEN /\ res' = Res(r, "not_found", q.id, {}, RECEIVED, q.target)
               /\ req' = [req EXCEPT ![r] = IdleReq]
          ELSE LET currentStatus == orders[o].status
               IN IF q.handler \in Controllers
                       /\ ~validateStatusTransition(currentStatus, q.target)
                    THEN /\ res' = Res(r, "invalid_transition", q.id,
                                        getAllowedNextStatuses(currentStatus),
                                        currentStatus, q.target)
                         /\ req' = [req EXCEPT ![r] = IdleReq]
                    ELSE /\ res' = NoRes
                         /\ req' = [req EXCEPT ![r] =
                              [q EXCEPT
                                 !.pc = "save",
                                 !.from = currentStatus,
                                 !.v = orders[o].v,
                                 !.op = IF q.handler = SVC THEN "status"
                                        ELSE IF NeedsSeed(q.handler, orders[o].statusHistory)
                                          THEN "set" ELSE "push",
                                 !.doc = IF q.handler \in Controllers
                                              /\ NeedsSeed(q.handler, orders[o].statusHistory)
                                           THEN <<Entry(currentStatus, "owner"),
                                                  Entry(q.target, "admin")>>
                                           ELSE <<Entry(q.target, "admin")>>]]
  /\ UNCHANGED <<orders, hist, wvars, proc>>

\* order.save() reaches the collection.  A statusHistory that was assigned
\* is written whole and only if the stored version is the loaded one (else
\* the save throws); a pushed entry is appended to the stored array; the
\* service writes the status and the timestamp of the status, after the
\* schema's enum validation of the status.
SaveStatus(r) ==
  /\ req[r].pc = "save"
  /\ UNCHANGED <<wvars, proc>>
  /\ LET q == req[r]
         o == q.id
     IN /\ req' = [req EXCEPT ![r] = IdleReq]
        /\ CASE q.op = "set" ->
                  IF orders[o].v # q.v
                    THEN /\ orders' = orders
                         /\ res' = Res(r, "error", o, {}, q.from, q.target)
                         /\ hist' = hist
                    ELSE /\ orders' = [orders EXCEPT ![o].status = q.target,
                                                    ![o].statusHistory = q.doc,
                                                    ![o].v = @ + 1]
                         /\ res' = Res(r, "ok", o, {}, q.from, q.target)
                         /\ hist' = [hist EXCEPT !.okCount[o] = @ + 1]
             [] q.op = "push" ->
                  /\ orders' = [orders EXCEPT ![o].status = q.target,
                                              ![o].statusHistory = @ \o q.doc,
                                              ![o].v = @ + 1]
                  /\ res' = Res(r, "ok", o, {}, q.from, q.target)
                  /\ hist' = [hist EXCEPT !.okCount[o] = @ + 1]
             [] q.op = "status" ->
                  IF q.target \notin ORDER_STATUS
                    THEN /\ orders' = orders
                         /\ res' = Res(r, "error", o, {}, q.from, q.target)
                         /\ hist' = hist
                    ELSE /\ orders' = [orders EXCEPT
                              ![o].status = q.target,
                              ![o].preparedAt = IF q.target = READY THEN TRUE ELSE @,
                              ![o].deliveredAt = IF q.target = COMPLETED THEN TRUE ELSE @,
                              ![o].cancelledAt = IF q.target = CANCELLED THEN TRUE ELSE @]
                         /\ res' = Res(r, "ok", o, {}, q.from, q.target)
                         /\ hist' = [hist EXCEPT !.okCount[o] = @ + 1]

\* ----------------------------------------------------------- the wallet
CREDIT == "CREDIT"
DEBIT == "DEBIT"
ADMIN_CREDIT == "ADMIN_CREDIT"
ADMIN_DEBIT == "ADMIN_DEBIT"
REFERRAL_BONUS_NEW_USER == "REFERRAL_BONUS_NEW_USER"
REFERRAL_BONUS_REFERRER == "REFERRAL_BONUS_REFERRER"

referralBonusNewUser == 50
referralBonusReferrer == 50
minOrderAmountForReferral == 199

\* amounts a caller passes: negative, zero and two positive ones
Amounts == {-1, 0, 2, 3}
\* user ids a caller passes: the users and an id that names no user
UserInputs == UserIds \cup {NoUser}
\* order totals: below and at the referral minimum
Totals == {minOrderAmountForReferral - 1, minOrderAmountForReferral}

NewUserDoc(referredBy) ==
  [walletBalance |-> 0, referredBy |-> referredBy,
   hasUsedReferral |-> referredBy # NoUser, referralRewarded |-> FALSE,
   referralCount |-> 0, referralEarnings |-> 0]

IdleCall ==
  [pc |-> "idle", op |-> CREDIT, user |-> NoUser, amount |-> 0,
   reason |-> ADMIN_CREDIT, orderId |-> NoOrder, referralId |-> NoUser,
   currentBalance |-> 0, newBalance |-> 0, result |-> "none"]

NoWRes ==
  [slot |-> 0, result |-> "none", op |-> CREDIT, user |-> NoUser, amount |-> 0,
   previousBalance |-> 0, newBalance |-> 0]

IdleProc == [pc |-> "idle", order |-> NoOrder, user |-> NoUser, referrer |-> NoUser]

NoCallActive == \A c \in Slots : wcall[c].pc = "idle"
NoRunActive == \A p \in Slots : proc[p].pc = "idle"

\* `new WalletTransaction({...})` in the wallet service.  The service binds
\* WalletTransaction to what require() of the model file returns, and the
\* model file exports the object {WalletTransaction, TRANSACTION_TYPES,
\* TRANSACTION_REASONS}: the expression throws a TypeError (not a
\* constructor), and no document is made.
NewWalletTransaction_constructs(fields) == [ok |-> TRUE, doc |-> fields]

NewWalletTransaction(fields) == [ok |-> FALSE, doc |-> fields]

\* the balance check that lets every debit through
insufficientBalance_never(currentBalance, amount) == FALSE

\* debitWallet's balance check: `currentBalance < amount`
insufficientBalance(currentBalance, amount) == currentBalance < amount

\* the amount check that lets a zero amount through
CallWallet_zeroAllowed(op, u, a, reason, oid, rid) ==
  [IdleCall EXCEPT
     !.pc = IF a < 0 THEN "done" ELSE "find",
     !.result = IF a < 0 THEN "InvalidAmount" ELSE "none",
     !.op = op, !.user = u, !.amount = a, !.reason = reason,
     !.orderId = oid, !.referralId = rid]

\* creditWallet / debitWallet up to the first await: the amount check.
CallWallet(op, u, a, reason, oid, rid) ==
  [IdleCall EXCEPT
     !.pc = IF a <= 0 THEN "done" ELSE "find",
     !.result = IF a <= 0 THEN "InvalidAmount" ELSE "none",
     !.op = op, !.user = u, !.amount = a, !.reason = reason,
     !.orderId = oid, !.referralId = rid]

\* A caller outside the referral processor (admin, payment) calls the
\* wallet service.
WBegin(c, op, u, a) ==
  /\ wcall[c].pc = "idle"
  /\ proc[c].pc = "idle"
  /\ ~NoCallActive => hist.races < MaxRaces
  /\ (op = CREDIT /\ a > 0 /\ u \in UserIds) => hist.creditBegun[u] + a <= MaxBalance
  /\ wcall' = [wcall EXCEPT ![c] =
        CallWallet(op, u, a, IF op = CREDIT THEN ADMIN_CREDIT ELSE ADMIN_DEBIT,
                   NoOrder, NoUser)]
  /\ wres' = NoWRes
  /\ hist' = [hist EXCEPT
        !.races = IF NoCallActive THEN @ ELSE @ + 1,
        !.creditBegun = IF op = CREDIT /\ a > 0 /\ u \in UserIds
                          THEN [@ EXCEPT ![u] = @ + a] ELSE @]
  /\ UNCHANGED <<ovars, users, log, proc>>

\* User.findById returns; the call runs up to its user.save().
WFind(c) ==
  /\ wcall[c].pc = "find"
  /\ LET w == wcall[c]
     IN IF w.user \notin UserIds
          THEN wcall' = [wcall EXCEPT ![c].pc = "done", ![c].result = "UserNotFound"]
          ELSE LET currentBalance == users[w.user].walletBalance
               IN IF w.op = DEBIT /\ insufficientBalance(currentBalance, w.amount)
                    THEN wcall' = [wcall EXCEPT
                           ![c].pc = "done", ![c].result = "InsufficientBalance",
                           ![c].currentBalance = currentBalance]
                    ELSE wcall' = [wcall EXCEPT
                           ![c].pc = "saveUser",
                           ![c].currentBalance = currentBalance,
                           ![c].newBalance = IF w.op = CREDIT
                                               THEN currentBalance + w.amount
                                               ELSE currentBalance - w.amount]
  /\ wres' = NoWRes
  /\ UNCHANGED <<ovars, users, log, proc, hist>>

\* user.save() stores the balance the call computed; then the call makes
\* the transaction record.  Were the record made, transaction.save() would
\* store it and the call would build its result, which in creditWallet
\* reads the undeclared name updatedUser (a ReferenceError).
WSaveUser(c) ==
  /\ wcall[c].pc = "saveUser"
  /\ LET w == wcall[c]
         t == NewWalletTransaction(
                [user |-> w.user, type |-> w.op, amount |-> w.amount,
                 reason |-> w.reason, orderId |-> w.orderId,
                 referralId |-> w.referralId, balanceAfter |-> w.newBalance])
     IN /\ users' = [users EXCEPT ![w.user].walletBalance = w.newBalance]
        /\ hist' = [hist EXCEPT
              !.credited[w.user] = IF w.op = CREDIT THEN @ + w.amount ELSE @,
              !.debited[w.user] = IF w.op = DEBIT THEN @ + w.amount ELSE @]
        /\ IF ~t.ok
             THEN /\ log' = log
                  /\ wcall' = [wcall EXCEPT ![c].pc = "done", ![c].result = "TypeError"]
             ELSE /\ log' = Append(log, t.doc)
                  /\ wcall' = [wcall EXCEPT
                        ![c].pc = "done",
                        ![c].result = IF w.op = CREDIT THEN "ReferenceError" ELSE "ok"]
  /\ wres' = NoWRes
  /\ UNCHANGED <<ovars, proc>>

\* The direct caller gets the result or the thrown error.
WReturn(c) ==
  /\ wcall[c].pc = "done"
  /\ proc[c].pc = "idle"
  /\ wres' = [slot |-> c, result |-> wcall[c].result, op |-> wcall[c].op,
              user |-> wcall[c].user, amount |-> wcall[c].amount,
              previousBalance |-> wcall[c].currentBalance,
              newBalance |-> wcall[c].newBalance]
  /\ wcall' = [wcall EXCEPT ![c] = IdleCall]
  /\ UNCHANGED <<ovars, users, log, proc, hist>>

getWalletBalance(u) == users[u].walletBalance

\* ------------------------------------------------- validateWalletUsage
maxWalletUsagePercent == 50

\* what a caller passes: a negative amount, zero, and amounts around the
\* limits; totals with and without a fractional percentage; a percentage
\* below and one above 100
UsageAmounts == {-1, 0, 40, 51, 60, 120}
UsageTotals == {100, 101}
UsagePercents == {maxWalletUsagePercent, 150}
\* balances a wallet can hold
UsageBalances == {0, 60, 200}

IdleUsage ==
  [pc |-> "idle", user |-> NoUser, walletAmount |-> 0, orderTotal |-> 0,
   maxPercentage |-> maxWalletUsagePercent, result |-> "none",
   currentBalance |-> 0, maxAllowed |-> 0]

\* the limit rounded up
calculateMaxWalletUsage_ceil(orderTotal, maxPercentage) ==
  -((-(orderTotal * maxPercentage)) \div 100)

\* Math.floor((orderTotal * maxPercentage) / 100)
calculateMaxWalletUsage(orderTotal, maxPercentage) ==
  (orderTotal * maxPercentage) \div 100

\* the checks validateWalletUsage makes once it has the balance
usageChecks(walletAmount, currentBalance, maxAllowed, orderTotal) ==
  IF walletAmount > currentBalance THEN "InsufficientBalance"
  ELSE IF walletAmount > maxAllowed THEN "ExceedsPolicyLimit"
  ELSE IF walletAmount > orderTotal THEN "ExceedsOrderTotal"
  ELSE "valid"

\* validateWalletUsage up to its await: the checks on the amount alone.
VBegin(u, a, total, pct) ==
  /\ vcall.pc \in {"idle", "done"}
  /\ vcall' = [IdleUsage EXCEPT
        !.pc = IF a <= 0 THEN "done" ELSE "balance",
        !.result = IF a < 0 THEN "InvalidAmount"
                   ELSE IF a = 0 THEN "valid" ELSE "none",
        !.user = u, !.walletAmount = a, !.orderTotal = total,
        !.maxPercentage = pct]
  /\ UNCHANGED <<ovars, wvars, proc, hist, evars>>

\* getWalletBalance returns; the remaining checks, in the code's order.
VBalance ==
  /\ vcall.pc = "balance"
  /\ LET v == vcall
     IN IF v.user \notin UserIds
          THEN vcall' = [v EXCEPT !.pc = "done", !.result = "UserNotFound"]
          ELSE LET currentBalance == getWalletBalance(v.user)
                   maxAllowed == calculateMaxWalletUsage(v.orderTotal, v.maxPercentage)
               IN vcall' = [v EXCEPT
                    !.pc = "done",
                    !.currentBalance = currentBalance,
                    !.maxAllowed = maxAllowed,
                    !.result = usageChecks(v.walletAmount, currentBalance, maxAllowed,
                                           v.orderTotal)]
  /\ UNCHANGED <<ovars, wvars, proc, hist, evars>>

\* ------------------------------------------------- order event streams
maxClients == 100

\* the response objects (handles) of the SSE requests that are followed
Handles == 1..MaxHandles

\* the two keys of the stored order: its order code and its _id
OrderCode == "HW1"
OrderDbId == "id1"
Keys == {OrderCode, OrderDbId}
\* ids a stream request carries: the two keys and a code that names no order
StreamIds == Keys \cup {"HW404"}

\* handles that subscribed before and stay connected: none, one less than
\* the maximum, the maximum
AnonInputs == {0, maxClients - 1, maxClients}

\* One entry of the clients Map: the Set of the key, in insertion order.
\* `anon` counts the handles of the Set that are not followed one by one.
NoClientSet == [has |-> FALSE, anon |-> 0, list |-> <<>>]

Range(f) == {f[i] : i \in DOMAIN f}

\* clientSet.size
Size(clientSet) == clientSet.anon + Len(clientSet.list)

RECURSIVE Without(_, _)
\* clientSet.delete(res)
Without(list, h) ==
  IF list = <<>> THEN <<>>
  ELSE IF Head(list) = h THEN Without(Tail(list), h)
  ELSE <<Head(list)>> \o Without(Tail(list), h)

\* addClient without the check of the maximum
addClient_unbounded(cl, orderId, h) ==
  LET c1 == IF cl[orderId].has THEN cl
            ELSE [cl EXCEPT ![orderId] = [NoClientSet EXCEPT !.has = TRUE]]
  IN [ok |-> TRUE,
      clients |-> [c1 EXCEPT ![orderId].list =
                     IF h \in Range(@) THEN @ ELSE Append(@, h)]]

addClient(cl, orderId, h) ==
  LET c1 == IF cl[orderId].has THEN cl
            ELSE [cl EXCEPT ![orderId] = [NoClientSet EXCEPT !.has = TRUE]]
  IN IF Size(c1[orderId]) >= maxClients
       THEN [ok |-> FALSE, clients |-> c1]
       ELSE [ok |-> TRUE,
             clients |-> [c1 EXCEPT ![orderId].list =
                            IF h \in Range(@) THEN @ ELSE Append(@, h)]]

\* removeClient that leaves the emptied Set in the Map
removeClient_keepsEmpty(cl, orderId, h) ==
  IF ~cl[orderId].has THEN cl
  ELSE [cl EXCEPT ![orderId].list = Without(@, h)]

removeClient(cl, orderId, h) ==
  IF ~cl[orderId].has THEN cl
  ELSE LET list == Without(cl[orderId].list, h)
       IN IF cl[orderId].anon + Len(list) = 0
            THEN [cl EXCEPT ![orderId] = NoClientSet]
            ELSE [cl EXCEPT ![orderId].list = list]

\* the cleanup of the close, error and heartbeat handlers: both keys
removeBoth(cl, h) == removeClient(removeClient(cl, OrderCode, h), OrderDbId, h)

IdleConn ==
  [pc |-> "idle", id |-> OrderCode, closed |-> FALSE, listening |-> FALSE,
   heartbeat |-> FALSE, outcome |-> "none"]

NoBcast == [key |-> "none", before |-> <<>>, anon |-> 0, writes |-> <<>>, threw |-> {}]

\* handles whose res.write can throw: the connection is closed or ended
Broken == {h \in Handles : conn[h].closed \/ conn[h].pc = "ended"}

RECURSIVE forEachClient_stopsAtThrow(_, _, _, _, _)
\* the loop that ends at the first write that throws
forEachClient_stopsAtThrow(rest, cl, orderId, writes, throwers) ==
  IF rest = <<>> THEN [clients |-> cl, writes |-> writes]
  ELSE LET h == Head(rest)
       IN IF h \in throwers
            THEN [clients |-> removeClient(cl, orderId, h), writes |-> Append(writes, h)]
            ELSE forEachClient_stopsAtThrow(Tail(rest), cl, orderId,
                                            Append(writes, h), throwers)

RECURSIVE forEachClient(_, _, _, _, _)
\* clientSet.forEach(res => { try { res.write } catch { removeClient } }):
\* the Set is visited in insertion order, and a handle that was deleted
\* before its turn is not visited.
forEachClient(rest, cl, orderId, writes, throwers) ==
  IF rest = <<>> THEN [clients |-> cl, writes |-> writes]
  ELSE LET h == Head(rest)
       IN IF h \notin Range(cl[orderId].list)
            THEN forEachClient(Tail(rest), cl, orderId, writes, throwers)
            ELSE forEachClient(Tail(rest),
                               IF h \in throwers THEN removeClient(cl, orderId, h) ELSE cl,
                               orderId, Append(writes, h), throwers)

\* GET /orders/:id/stream arrives; the handler awaits Order.findOne.
StreamBegin(h, id) ==
  /\ conn[h].pc = "idle"
  /\ conn' = [conn EXCEPT ![h] = [IdleConn EXCEPT !.pc = "lookup", !.id = id]]
  /\ bcast' = NoBcast
  /\ UNCHANGED <<clients, ovars, wvars, proc, hist, uvars>>

\* The lookup returns and the handler runs to its end: the headers and
\* the initial data, the two addClient calls, then either the rejection
\* (error message, res.end()) or the confirmation, the heartbeat timer and
\* the close and error listeners.  A write on a closed connection may
\* throw (`thrown` names the write); the catch block ends the response.
StreamLookup(h, thrown) ==
  /\ conn[h].pc = "lookup"
  /\ thrown # "none" => conn[h].closed
  /\ bcast' = NoBcast
  /\ UNCHANGED <<ovars, wvars, proc, hist, uvars>>
  /\ IF conn[h].id \notin Keys \/ ~orders[1].exists
       THEN /\ thrown = "none"
            /\ conn' = [conn EXCEPT ![h].pc = "ended", ![h].outcome = "not_found"]
            /\ clients' = clients
       ELSE IF thrown = "initial"
         THEN /\ conn' = [conn EXCEPT ![h].pc = "ended", ![h].outcome = "write_failed"]
              /\ clients' = clients
         ELSE LET first == addClient(clients, OrderCode, h)
                  second == addClient(first.clients, OrderDbId, h)
              IN /\ clients' = second.clients
                 /\ IF ~first.ok
                      THEN /\ thrown = "none"
                           /\ conn' = [conn EXCEPT ![h].pc = "ended",
                                                   ![h].outcome = "max_connections"]
                      ELSE IF thrown = "confirm"
                        THEN conn' = [conn EXCEPT ![h].pc = "ended",
                                                  ![h].outcome = "write_failed"]
                        ELSE conn' = [conn EXCEPT ![h].pc = "streaming",
                                                  ![h].outcome = "connected",
                                                  ![h].heartbeat = TRUE,
                                                  ![h].listening = TRUE]

\* The client's connection closes (the request's close or error event).
\* The listeners, when they are attached, stop the heartbeat and remove
\* the handle from both keys.
ClientClose(h) ==
  /\ conn[h].pc \in {"lookup", "streaming"}
  /\ ~conn[h].closed
  /\ conn' = [conn EXCEPT ![h].closed = TRUE,
                          ![h].heartbeat = IF conn[h].listening THEN FALSE ELSE @]
  /\ clients' = IF conn[h].listening THEN removeBoth(clients, h) ELSE clients
  /\ bcast' = NoBcast
  /\ UNCHANGED <<ovars, wvars, proc, hist, uvars>>

\* The heartbeat timer fires on a closed connection and its write throws:
\* the timer is cleared and the handle removed from both keys.
HeartbeatFails(h) ==
  /\ conn[h].pc = "streaming"
  /\ conn[h].heartbeat
  /\ conn[h].closed
  /\ conn' = [conn EXCEPT ![h].heartbeat = FALSE]
  /\ clients' = removeBoth(clients, h)
  /\ bcast' = NoBcast
  /\ UNCHANGED <<ovars, wvars, proc, hist, uvars>>

\* broadcastOrderUpdate(orderId, orderData); the writes to the handles in
\* `throwers` throw.
Broadcast(orderId, throwers) ==
  /\ throwers \subseteq Broken
  /\ LET r == IF clients[orderId].has
                THEN forEachClient(clients[orderId].list, clients, orderId, <<>>, throwers)
                ELSE [clients |-> clients, writes |-> <<>>]
     IN /\ clients' = r.clients
        /\ bcast' = [key |-> orderId, before |-> clients[orderId].list,
                     anon |-> clients[orderId].anon, writes |-> r.writes,
                     threw |-> throwers \cap Range(clients[orderId].list)]
  /\ UNCHANGED <<conn, ovars, wvars, proc, hist, uvars>>

\* --------------------------------------------------- referral rewards
StartRun(o, u) == [IdleProc EXCEPT !.pc = "findUser", !.order = o, !.user = u]

EndRun(p) ==
  /\ proc' = [proc EXCEPT ![p] = IdleProc]
  /\ hist' = [hist EXCEPT !.runsDone[proc[p].order] = @ + 1]

AbsentOrders == {o \in OrderIds : ~orders[o].exists}

\* createOrder that answers only when the reward run has ended
CreateOrder_awaitsReward(p, u, total) ==
  /\ proc[p].pc = "idle"
  /\ wcall[p].pc = "idle"
  /\ AbsentOrders # {}
  /\ ~NoRunActive => hist.races < MaxRaces
  /\ LET o == CHOOSE x \in AbsentOrders : \A y \in AbsentOrders : x <= y
     IN /\ orders' = [orders EXCEPT ![o] = NewOrder(u, total, FALSE)]
        /\ proc' = [proc EXCEPT ![p] = StartRun(o, u)]
        /\ res' = NoRes
        /\ hist' = [hist EXCEPT !.runs[o] = @ + 1,
                                !.races = IF NoRunActive THEN @ ELSE @ + 1]
  /\ UNCHANGED <<req, wvars>>

\* createOrder with no wallet payment: order.save(), then
\* processReferralReward(order) is started and not awaited, and the 201
\* response is sent.
CreateOrder(p, u, total) ==
  /\ proc[p].pc = "idle"
  /\ wcall[p].pc = "idle"
  /\ AbsentOrders # {}
  /\ ~NoRunActive => hist.races < MaxRaces
  /\ LET o == CHOOSE x \in AbsentOrders : \A y \in AbsentOrders : x <= y
     IN /\ orders' = [orders EXCEPT ![o] = NewOrder(u, total, FALSE)]
        /\ proc' = [proc EXCEPT ![p] = StartRun(o, u)]
        /\ res' = Res(p, "created", o, {}, RECEIVED, RECEIVED)
        /\ hist' = [hist EXCEPT !.runs[o] = @ + 1,
                                !.races = IF NoRunActive THEN @ ELSE @ + 1]
  /\ UNCHANGED <<req, wvars>>

\* processReferralReward is called again for a stored order (a retry, a
\* duplicate event).
RetryReward(p, o) ==
  /\ proc[p].pc = "idle"
  /\ wcall[p].pc = "idle"
  /\ orders[o].exists
  /\ hist.runs[o] < MaxRuns
  /\ ~NoRunActive => hist.races < MaxRaces
  /\ proc' = [proc EXCEPT ![p] = StartRun(o, orders[o].user)]
  /\ hist' = [hist EXCEPT !.runs[o] = @ + 1,
                          !.races = IF NoRunActive THEN @ ELSE @ + 1]
  /\ UNCHANGED <<ovars, wvars>>

\* User.findById(userId) returns: the referral guard.
PFindUser(p) ==
  /\ proc[p].pc = "findUser"
  /\ LET u == proc[p].user
     IN IF u \notin UserIds
             \/ users[u].referredBy = NoUser \/ ~users[u].hasUsedReferral
          THEN EndRun(p)
          ELSE /\ proc' = [proc EXCEPT ![p].pc = "exists",
                                       ![p].referrer = users[u].referredBy]
               /\ hist' = hist
  /\ UNCHANGED <<ovars, wvars>>

hasReferralReward(u) ==
  \E i \in DOMAIN log :
    /\ log[i].user = u
    /\ log[i].reason = REFERRAL_BONUS_NEW_USER
    /\ log[i].type = CREDIT

\* WalletTransaction.exists(...) returns: the guard on the log.
PExists(p) ==
  /\ proc[p].pc = "exists"
  /\ IF hasReferralReward(proc[p].user)
       THEN EndRun(p)
       ELSE /\ proc' = [proc EXCEPT ![p].pc = "count"]
            /\ hist' = hist
  /\ UNCHANGED <<ovars, wvars>>

\* the count that finds no other order
previousOrderCount_none(u, o) == 0

previousOrderCount(u, o) ==
  Cardinality({x \in OrderIds :
                 /\ orders[x].exists
                 /\ orders[x].user = u
                 /\ x # o
                 /\ orders[x].status # CANCELLED})

\* Order.countDocuments(...) returns: the first-order guard, then the
\* minimum-amount guard.
PCount(p) ==
  /\ proc[p].pc = "count"
  /\ IF previousOrderCount(proc[p].user, proc[p].order) > 0
          \/ orders[proc[p].order].totalAmount < minOrderAmountForReferral
       THEN EndRun(p)
       ELSE /\ proc' = [proc EXCEPT ![p].pc = "findReferrer"]
            /\ hist' = hist
  /\ UNCHANGED <<ovars, wvars>>

\* User.findById(newUser.referredBy) returns; the run calls creditWallet
\* for the new user.
PFindReferrer(p) ==
  /\ proc[p].pc = "findReferrer"
  /\ IF proc[p].referrer \notin UserIds
       THEN /\ EndRun(p)
            /\ wcall' = wcall
       ELSE /\ proc' = [proc EXCEPT ![p].pc = "creditNewUser"]
            /\ wcall' = [wcall EXCEPT ![p] =
                 CallWallet(CREDIT, proc[p].user, referralBonusNewUser,
                            REFERRAL_BONUS_NEW_USER, proc[p].order, proc[p].referrer)]
            /\ hist' = hist
  /\ UNCHANGED <<ovars, users, log, wres>>

\* the run that goes on to the referrer whatever the new user's credit gave
PAfterNewUserCredit_ignoresError(p) ==
  /\ proc[p].pc = "creditNewUser"
  /\ wcall[p].pc = "done"
  /\ proc' = [proc EXCEPT ![p].pc = "creditReferrer"]
  /\ wcall' = [wcall EXCEPT ![p] =
       CallWallet(CREDIT, proc[p].referrer, referralBonusReferrer,
                  REFERRAL_BONUS_REFERRER, proc[p].order, proc[p].user)]
  /\ hist' = hist
  /\ UNCHANGED <<ovars, users, log, wres>>

\* The new user's creditWallet has ended.  An error is thrown on and ends
\* the run; a result would let the run go on to the referrer's credit.
PAfterNewUserCredit(p) ==
  /\ proc[p].pc = "creditNewUser"
  /\ wcall[p].pc = "done"
  /\ IF wcall[p].result # "ok"
       THEN /\ EndRun(p)
            /\ wcall' = [wcall EXCEPT ![p] = IdleCall]
       ELSE /\ proc' = [proc EXCEPT ![p].pc = "creditReferrer"]
            /\ wcall' = [wcall EXCEPT ![p] =
                 CallWallet(CREDIT, proc[p].referrer, referralBonusReferrer,
                            REFERRAL_BONUS_REFERRER, proc[p].order, proc[p].user)]
            /\ hist' = hist
  /\ UNCHANGED <<ovars, users, log, wres>>

\* ----------------------------------------------- live status updates
NoPending ==
  [active |-> FALSE, key |-> OrderCode, status |-> RECEIVED, previousStatus |-> RECEIVED]

\* what a subscriber has been sent: the status of the latest message, and
\* whether a statusUpdate named a previousStatus other than that status
NothingSeen == [last |-> "none", gap |-> FALSE]

\* order.save() of a status request, and what follows it.  controller_v1
\* goes on, after its populate calls, to broadcastOrderUpdate(id, ...) with
\* the identifier of the request; controller_v2 and the service broadcast
\* nothing.
SaveAndQueue(r, id) ==
  /\ SaveStatus(r)
  /\ pend' = IF req[r].handler = CTL15 /\ res'.kind = "ok"
               THEN [pend EXCEPT ![r] =
                       [active |-> TRUE, key |-> id, status |-> req[r].target,
                        previousStatus |-> req[r].from]]
               ELSE pend
  /\ UNCHANGED <<uvars, evars, seen, acall, ocall, lk>>

\* The populate calls of controller_v1 have returned: the statusUpdate
\* event is broadcast on the key of the request.
BroadcastStatus(r, throwers) ==
  /\ pend[r].active
  /\ Broadcast(pend[r].key, throwers)
  /\ pend' = [pend EXCEPT ![r] = NoPending]
  /\ seen' = [h \in Handles |->
                IF h \in Range(bcast'.writes) /\ h \notin throwers
                  THEN [last |-> pend[r].status,
                        gap |-> seen[h].gap \/ seen[h].last # pend[r].previousStatus]
                  ELSE seen[h]]
  /\ UNCHANGED <<acall, ocall, lk>>

\* The stream handler after its lookup; the initial data it writes carries
\* the order as the lookup read it.
StreamAndSnapshot(h, thrown) ==
  /\ StreamLookup(h, thrown)
  /\ seen' = IF conn[h].id \in Keys /\ orders[1].exists /\ ~conn[h].closed
               THEN [seen EXCEPT ![h] = [last |-> orders[1].status, gap |-> FALSE]]
               ELSE seen
  /\ UNCHANGED <<pend, acall, ocall, lk>>

\* ------------------------------------------------- applyReferralCode
\* referral codes a caller passes: the code of each user, a well-formed
\* code of no user, a code that is too short
UnknownCode == NoUser
ShortCode == UnknownCode - 1
CodeInputs == UserIds \cup {UnknownCode, ShortCode}

IdleApply ==
  [pc |-> "idle", user |-> NoUser, code |-> UnknownCode, referrer |-> NoUser,
   result |-> "none"]

NoApplyActive == \A c \in Slots : acall[c].pc \in {"idle", "done"}

\* applyReferralCode is called; it awaits User.findById(newUserId).
ABegin(c, u, code) ==
  /\ acall[c].pc \in {"idle", "done"}
  /\ ~NoApplyActive => hist.races < MaxRaces
  /\ acall' = [acall EXCEPT ![c] =
                 [IdleApply EXCEPT !.pc = "findUser", !.user = u, !.code = code]]
  /\ hist' = [hist EXCEPT !.races = IF NoApplyActive THEN @ ELSE @ + 1]
  /\ UNCHANGED <<ovars, wvars, proc, uvars, evars, pend, seen, ocall, lk>>

\* `if (newUser.referredBy)`
alreadyReferred(newUser) == newUser.referredBy # NoUser

\* The user is read: the checks on the user and on the format of the code.
AFindUser(c) ==
  /\ acall[c].pc = "findUser"
  /\ LET a == acall[c]
     IN acall' = [acall EXCEPT ![c] =
          IF a.user \notin UserIds
            THEN [a EXCEPT !.pc = "done", !.result = "UserNotFound"]
          ELSE IF alreadyReferred(users[a.user])
            THEN [a EXCEPT !.pc = "done", !.result = "AlreadyApplied"]
          ELSE IF a.code = ShortCode
            THEN [a EXCEPT !.pc = "done", !.result = "InvalidFormat"]
          ELSE [a EXCEPT !.pc = "findReferrer"]]
  /\ UNCHANGED <<ovars, wvars, proc, hist, uvars, evars, pend, seen, ocall, lk>>

\* a document's _id, an ObjectId object, and its toString(), a string
ObjectIdValue(u) == [type |-> "ObjectId", of |-> u]
toString(id) == [type |-> "string", of |-> id.of]

\* a === b: values of different types are not equal
strictEquals(a, b) == a.type = b.type /\ a.of = b.of

\* `referrer._id.toString() === newUserId`; the callers pass
\* req.user.userId, which the authenticate middleware sets to user._id
isSelfReferral(referrer, newUser) ==
  strictEquals(toString(ObjectIdValue(referrer)), ObjectIdValue(newUser))

\* The referrer is read by its code: unknown code, own code, or go on.
AFindReferrer(c) ==
  /\ acall[c].pc = "findReferrer"
  /\ LET a == acall[c]
     IN acall' = [acall EXCEPT ![c] =
          IF a.code \notin UserIds
            THEN [a EXCEPT !.pc = "done", !.result = "InvalidCode"]
          ELSE IF isSelfReferral(a.code, a.user)
            THEN [a EXCEPT !.pc = "done", !.result = "SelfReferral"]
          ELSE [a EXCEPT !.pc = "save", !.referrer = a.code]]
  /\ UNCHANGED <<ovars, wvars, proc, hist, uvars, evars, pend, seen, ocall, lk>>

\* newUser.save() writes referredBy and hasUsedReferral, whatever the
\* stored document holds by now.
ASave(c) ==
  /\ acall[c].pc = "save"
  /\ users' = [users EXCEPT ![acall[c].user].referredBy = acall[c].referrer,
                            ![acall[c].user].hasUsedReferral = TRUE]
  /\ acall' = [acall EXCEPT ![c].pc = "done", ![c].result = "ok"]
  /\ UNCHANGED <<ovars, log, wcall, wres, proc, hist, uvars, evars, pend, seen, ocall, lk>>

\* ------------------------------------------------------- createOrder
ORDER_PAYMENT == "ORDER_PAYMENT"

\* identifiers are strings, here sequences of characters
DigitChars == <<"0", "1", "2", "3", "4", "5", "6", "7", "8", "9">>
HexChars == {DigitChars[i] : i \in 1..10} \cup
            {"a", "b", "c", "d", "e", "f", "A", "B", "C", "D", "E", "F"}

\* String(n) for n >= 0
RECURSIVE StringOf(_)
StringOf(n) ==
  IF n < 10 THEN <<DigitChars[n + 1]>>
  ELSE StringOf(n \div 10) \o <<DigitChars[(n % 10) + 1]>>

\* s.padStart(len, '0')
RECURSIVE padStart(_, _)
padStart(s, len) == IF Len(s) >= len THEN s ELSE padStart(<<"0">> \o s, len)

\* today.toISOString().split('T')[0].replace(/-/g, '')
todayDate == <<"2", "0", "2", "6", "1", "1", "0", "1">>

\* the persistent _id of the document in slot o: 24 hex characters
ObjectIdOf(o) == [i \in 1..24 |-> IF i < 24 THEN "a" ELSE DigitChars[o + 1]]

\* an order code that is the _id of the order stored before
generateOrderId_asObjectId(todayOrderCount) == ObjectIdOf(todayOrderCount)

\* `${todayDate}${String(todayOrderCount + 1).padStart(3, '0')}`
generateOrderId(todayOrderCount) ==
  todayDate \o padStart(StringOf(todayOrderCount + 1), 3)

\* id.match(/^[0-9a-fA-F]{24}$/)
isObjectId(id) == Len(id) = 24 /\ \A i \in 1..24 : id[i] \in HexChars

\* carts: item lists of [menuItem, quantity]; the two carts agree on the
\* first item and differ in its quantity
Carts ==
  {<<[menuItem |-> 1, quantity |-> 1]>>, <<[menuItem |-> 1, quantity |-> 2]>>}
PlaceTotals == {100}
PlaceWallet == {0, 40}
PlaceBalances == {60}

\* a document as createOrder stores it: walletUsed is not passed to
\* `new Order` and takes the schema default 0
NoPlacedOrder ==
  [orderId |-> <<>>, items |-> <<>>, recent |-> FALSE, walletUsed |-> 0] @@ AbsentOrder
PlacedOrder(code, u, items, total) ==
  [orderId |-> code, items |-> items, recent |-> TRUE, walletUsed |-> 0]
    @@ NewOrder(u, total, FALSE)

IdlePlace ==
  [pc |-> "idle", user |-> NoUser, items |-> <<>>, totalAmount |-> 0,
   walletUsed |-> 0, orderId |-> <<>>, result |-> "none"]

NoPlaceActive == \A c \in Slots : ocall[c].pc \in {"idle", "done"}

Highest(S) == CHOOSE x \in S : \A y \in S : y <= x

\* Order.findOne({user, createdAt >= fiveSecondsAgo, status: RECEIVED,
\* totalAmount, 'items.0.menuItem'}).sort({createdAt: -1}); slots fill in
\* the order of creation
recentOrder(u, items, total) ==
  LET found == {o \in OrderIds :
                  /\ orders[o].exists
                  /\ orders[o].user = u
                  /\ orders[o].recent
                  /\ orders[o].status = RECEIVED
                  /\ orders[o].totalAmount = total
                  /\ orders[o].items[1].menuItem = items[1].menuItem}
  IN IF found = {} THEN NoOrder ELSE Highest(found)

itemsMatch(recentItems, items) ==
  /\ Len(recentItems) = Len(items)
  /\ \A i \in 1..Len(items) :
       /\ recentItems[i].menuItem = items[i].menuItem
       /\ recentItems[i].quantity = items[i].quantity

isDuplicate(u, items, total) ==
  LET o == recentOrder(u, items, total)
  IN o # NoOrder /\ itemsMatch(orders[o].items, items)

\* createOrder is called by an authenticated user with a non-empty cart
\* of valid items; it awaits the restaurant (open) and then the
\* duplicate query.
OBegin(c, u, items, total, w) ==
  /\ ocall[c].pc \in {"idle", "done"}
  /\ proc[c].pc = "idle"
  /\ wcall[c].pc = "idle"
  /\ Cardinality(AbsentOrders) > Cardinality({d \in Slots : ocall[d].pc \notin {"idle", "done"}})
  /\ ~NoPlaceActive => hist.races < MaxRaces
  /\ ocall' = [ocall EXCEPT ![c] =
                 [IdlePlace EXCEPT !.pc = "dup", !.user = u, !.items = items,
                                   !.totalAmount = total, !.walletUsed = w]]
  /\ hist' = [hist EXCEPT !.races = IF NoPlaceActive THEN @ ELSE @ + 1]
  /\ UNCHANGED <<ovars, wvars, proc, uvars, evars, pend, seen, acall, lk>>

\* The duplicate query returns: 409, or on to the wallet or the count.
ODuplicateCheck(c) ==
  /\ ocall[c].pc = "dup"
  /\ LET a == ocall[c]
     IN ocall' = [ocall EXCEPT ![c] =
          IF isDuplicate(a.user, a.items, a.totalAmount)
            THEN [a EXCEPT !.pc = "done", !.result = "duplicate"]
          ELSE IF a.walletUsed > 0 THEN [a EXCEPT !.pc = "validate"]
          ELSE [a EXCEPT !.pc = "count"]]
  /\ UNCHANGED <<ovars, wvars, proc, hist, uvars, evars, pend, seen, acall, lk>>

\* validateWalletUsage returns (its balance read); a failed check is
\* thrown and answered with 400, a passed one goes on into debitWallet.
OValidate(c) ==
  /\ ocall[c].pc = "validate"
  /\ LET a == ocall[c]
         check == usageChecks(a.walletUsed, getWalletBalance(a.user),
                     calculateMaxWalletUsage(a.totalAmount, maxWalletUsagePercent),
                     a.totalAmount)
     IN IF check = "valid"
          THEN /\ ocall' = [ocall EXCEPT ![c].pc = "debit"]
               /\ wcall' = [wcall EXCEPT ![c] =
                    CallWallet(DEBIT, a.user, a.walletUsed, ORDER_PAYMENT, NoOrder, NoUser)]
          ELSE /\ ocall' = [ocall EXCEPT ![c].pc = "done", ![c].result = "wallet_failed"]
               /\ wcall' = wcall
  /\ UNCHANGED <<ovars, users, log, wres, proc, hist, uvars, evars, pend, seen, acall, lk>>

\* debitWallet has returned or thrown: a thrown error is answered with
\* 400, and nothing is done about what the call stored.
OAfterDebit(c) ==
  /\ ocall[c].pc = "debit"
  /\ wcall[c].pc = "done"
  /\ ocall' = [ocall EXCEPT ![c] =
        IF wcall[c].result = "ok" THEN [@ EXCEPT !.pc = "count"]
        ELSE [@ EXCEPT !.pc = "done", !.result = "wallet_failed"]]
  /\ wcall' = [wcall EXCEPT ![c] = IdleCall]
  /\ UNCHANGED <<ovars, users, log, wres, proc, hist, uvars, evars, pend, seen, acall, lk>>

\* Order.countDocuments of today's orders returns; the order code is made.
OCount(c) ==
  /\ ocall[c].pc = "count"
  /\ ocall' = [ocall EXCEPT
        ![c].pc = "save",
        ![c].orderId = generateOrderId(Cardinality({o \in OrderIds : orders[o].exists}))]
  /\ UNCHANGED <<ovars, wvars, proc, hist, uvars, evars, pend, seen, acall, lk>>

\* order.save(): the unique index on orderId rejects a code that is
\* stored already (answered with 500); otherwise the order is stored, the
\* reward run is started and not awaited, and 201 is answered.
OSave(c) ==
  /\ ocall[c].pc = "save"
  /\ LET a == ocall[c]
         o == CHOOSE x \in AbsentOrders : \A y \in AbsentOrders : x <= y
     IN IF \E x \in OrderIds : orders[x].exists /\ orders[x].orderId = a.orderId
          THEN /\ ocall' = [ocall EXCEPT ![c].pc = "done", ![c].result = "error"]
               /\ UNCHANGED <<orders, proc, hist>>
          ELSE /\ orders' = [orders EXCEPT ![o] =
                    PlacedOrder(a.orderId, a.user, a.items, a.totalAmount)]
               /\ proc' = [proc EXCEPT ![c] = StartRun(o, a.user)]
               /\ hist' = [hist EXCEPT !.runs[o] = @ + 1]
               /\ ocall' = [ocall EXCEPT ![c].pc = "done", ![c].result = "created"]
  /\ UNCHANGED <<req, res, wvars, uvars, evars, pend, seen, acall, lk>>

\* Five seconds have passed since an order was created.
Age(o) ==
  /\ orders[o].exists
  /\ orders[o].recent
  /\ orders' = [orders EXCEPT ![o].recent = FALSE]
  /\ UNCHANGED <<req, res, wvars, proc, hist, uvars, evars, lvars>>

\* --------------------------------------------------- order lookups
NoLookup == [id |-> <<>>, stream |-> NoOrder, update |-> NoOrder]

Lowest(S) == CHOOSE x \in S : \A y \in S : x <= y

\* Order.findOne({ orderId: id })
findOneByOrderId(id) ==
  LET found == {o \in OrderIds : orders[o].exists /\ orders[o].orderId = id}
  IN IF found = {} THEN NoOrder ELSE Lowest(found)

\* Order.findById(id)
findById(id) ==
  LET found == {o \in OrderIds : orders[o].exists /\ ObjectIdOf(o) = id}
  IN IF found = {} THEN NoOrder ELSE Lowest(found)

\* streamOrderStatus: the order code first, then the _id
streamLookup(id) ==
  LET order == findOneByOrderId(id)
  IN IF order # NoOrder THEN order
     ELSE IF isObjectId(id) THEN findById(id) ELSE NoOrder

\* updateOrderStatus: the _id first, then the order code
updateLookup(id) ==
  LET order == IF isObjectId(id) THEN findById(id) ELSE NoOrder
  IN IF order # NoOrder THEN order ELSE findOneByOrderId(id)

\* identifiers a caller passes: order codes, _ids, a string of neither kind
IdInputs ==
  {generateOrderId(n) : n \in 0..MaxOrders} \cup {ObjectIdOf(o) : o \in OrderIds}
    \cup {<<"H", "W", "4", "0", "4">>}

\* A stream request and a status request name the order by the same
\* identifier; each runs its lookup.
Resolve(id) ==
  /\ NoPlaceActive
  /\ lk' = [id |-> id, stream |-> streamLookup(id), update |-> updateLookup(id)]
  /\ UNCHANGED <<ovars, wvars, proc, hist, uvars, evars, pend, seen, acall, ocall>>

\* ------------------------------------------------------- specifications
NoHist ==
  [svcCalls |-> 0,
   races |-> 0,
   okCount |-> [o \in OrderIds |-> 0],
   createdEmpty |-> [o \in OrderIds |-> FALSE],
   creditBegun |-> [u \in UserIds |-> 0],
   credited |-> [u \in UserIds |-> 0],
   debited |-> [u \in UserIds |-> 0],
   runs |-> [o \in OrderIds |-> 0],
   runsDone |-> [o \in OrderIds |-> 0]]

IdleInit ==
  /\ req = [r \in Slots |-> IdleReq]
  /\ res = NoRes
  /\ log = <<>>
  /\ wcall = [c \in Slots |-> IdleCall]
  /\ wres = NoWRes
  /\ proc = [p \in Slots |-> IdleProc]
  /\ vcall = IdleUsage
  /\ pend = [r \in Slots |-> NoPending]
  /\ seen = [h \in Handles |-> NothingSeen]
  /\ acall = [c \in Slots |-> IdleApply]
  /\ ocall = [c \in Slots |-> IdlePlace]
  /\ lk = NoLookup
  /\ conn = [h \in Handles |-> IdleConn]
  /\ bcast = NoBcast

NoClients == [k \in Keys |-> NoClientSet]

\* one stored order, placed by createOrder or by verifyPayment
OrderInit ==
  /\ IdleInit
  /\ clients = NoClients
  /\ \E seeded \in BOOLEAN :
       orders = [o \in OrderIds |->
                   IF o = 1 THEN NewOrder(1, minOrderAmountForReferral, seeded)
                   ELSE AbsentOrder]
  /\ users = [u \in UserIds |-> NewUserDoc(NoUser)]
  /\ hist = [NoHist EXCEPT
       !.createdEmpty = [o \in OrderIds |->
                           orders[o].exists /\ Len(orders[o].statusHistory) = 0]]

\* registered users with empty wallets
WalletInit ==
  /\ IdleInit
  /\ clients = NoClients
  /\ orders = [o \in OrderIds |-> AbsentOrder]
  /\ users = [u \in UserIds |-> NewUserDoc(NoUser)]
  /\ hist = NoHist

\* registered users with empty wallets; user 1 may have applied the
\* referral code of user 2
ReferralInit ==
  /\ IdleInit
  /\ clients = NoClients
  /\ orders = [o \in OrderIds |-> AbsentOrder]
  /\ \E by \in {NoUser, 2} :
       users = [u \in UserIds |-> NewUserDoc(IF u = 1 THEN by ELSE NoUser)]
  /\ hist = NoHist

\* registered users whose wallets hold the same balance
UsageInit ==
  /\ IdleInit
  /\ clients = NoClients
  /\ orders = [o \in OrderIds |-> AbsentOrder]
  /\ \E b \in UsageBalances :
       users = [u \in UserIds |-> [NewUserDoc(NoUser) EXCEPT !.walletBalance = b]]
  /\ hist = NoHist

\* one stored order; the Sets of its two keys hold the handles that
\* subscribed before
EventInit ==
  /\ IdleInit
  /\ orders = [o \in OrderIds |->
                 IF o = 1 THEN NewOrder(1, minOrderAmountForReferral, TRUE)
                 ELSE AbsentOrder]
  /\ users = [u \in UserIds |-> NewUserDoc(NoUser)]
  /\ hist = NoHist
  /\ \E n \in AnonInputs :
       clients = [k \in Keys |->
                    IF n = 0 THEN NoClientSet
                    ELSE [NoClientSet EXCEPT !.has = TRUE, !.anon = n]]

Begin ==
  /\ \E r \in Slots, h \in Controllers, id \in OrderIds, t \in StatusInputs :
       BeginStatus(r, h, id, t)
  /\ UNCHANGED <<uvars, evars, lvars>>

SeqBegin ==
  /\ NoRequestActive
  /\ \E h \in Handlers, id \in OrderIds, t \in StatusInputs : BeginStatus(1, h, id, t)
  /\ UNCHANGED <<uvars, evars, lvars>>

Find == (\E r \in Slots : FindStatus(r)) /\ UNCHANGED <<uvars, evars, lvars>>

Save == (\E r \in Slots : SaveStatus(r)) /\ UNCHANGED <<uvars, evars, lvars>>

OrderSeqNext == SeqBegin \/ Find \/ Save

OrderNext == Begin \/ Find \/ Save

\* status requests of the controllers and the service, one at a time
OrderSeqSpec == OrderInit /\ [][OrderSeqNext]_vars

\* status requests of the controllers, handled concurrently
OrderSpec == OrderInit /\ [][OrderNext]_vars

WalletBegin ==
  /\ \E c \in Slots, op \in {CREDIT, DEBIT}, u \in UserInputs, a \in Amounts :
       WBegin(c, op, u, a)
  /\ UNCHANGED <<uvars, evars, lvars>>

WalletSeqBegin ==
  /\ NoCallActive
  /\ \E op \in {CREDIT, DEBIT}, u \in UserInputs, a \in Amounts : WBegin(1, op, u, a)
  /\ UNCHANGED <<uvars, evars, lvars>>

WalletFind == (\E c \in Slots : WFind(c)) /\ UNCHANGED <<uvars, evars, lvars>>

WalletSaveUser == (\E c \in Slots : WSaveUser(c)) /\ UNCHANGED <<uvars, evars, lvars>>

WalletReturn == (\E c \in Slots : WReturn(c)) /\ UNCHANGED <<uvars, evars, lvars>>

WalletSeqNext == WalletSeqBegin \/ WalletFind \/ WalletSaveUser \/ WalletReturn

WalletNext == WalletBegin \/ WalletFind \/ WalletSaveUser \/ WalletReturn

\* wallet calls, one at a time
WalletSeqSpec == WalletInit /\ [][WalletSeqNext]_vars

\* wallet calls, concurrently
WalletSpec == WalletInit /\ [][WalletNext]_vars

PlaceOrder ==
  /\ \E p \in Slots, u \in UserIds, total \in Totals : CreateOrder(p, u, total)
  /\ UNCHANGED <<uvars, evars, lvars>>

SeqPlaceOrder ==
  /\ NoRunActive
  /\ \E u \in UserIds, total \in Totals : CreateOrder(1, u, total)
  /\ UNCHANGED <<uvars, evars, lvars>>

Retry == (\E p \in Slots, o \in OrderIds : RetryReward(p, o)) /\ UNCHANGED <<uvars, evars, lvars>>

SeqRetry ==
  /\ NoRunActive
  /\ \E o \in OrderIds : RetryReward(1, o)
  /\ UNCHANGED <<uvars, evars, lvars>>

RewardFindUser == (\E p \in Slots : PFindUser(p)) /\ UNCHANGED <<uvars, evars, lvars>>

RewardExists == (\E p \in Slots : PExists(p)) /\ UNCHANGED <<uvars, evars, lvars>>

RewardCount == (\E p \in Slots : PCount(p)) /\ UNCHANGED <<uvars, evars, lvars>>

RewardFindReferrer == (\E p \in Slots : PFindReferrer(p)) /\ UNCHANGED <<uvars, evars, lvars>>

RewardAfterNewUserCredit == (\E p \in Slots : PAfterNewUserCredit(p)) /\ UNCHANGED <<uvars, evars, lvars>>

RewardSteps ==
  \/ RewardFindUser \/ RewardExists \/ RewardCount \/ RewardFindReferrer
  \/ WalletFind \/ WalletSaveUser \/ RewardAfterNewUserCredit

ReferralSeqNext == SeqPlaceOrder \/ SeqRetry \/ RewardSteps

ReferralNext == PlaceOrder \/ Retry \/ RewardSteps

\* orders placed and rewards processed, one run at a time
ReferralSeqSpec == ReferralInit /\ [][ReferralSeqNext]_vars

\* orders placed and rewards processed, concurrently
ReferralSpec == ReferralInit /\ [][ReferralNext]_vars

UsageBegin ==
  /\ \E u \in UserInputs, a \in UsageAmounts, total \in UsageTotals, pct \in UsagePercents :
       VBegin(u, a, total, pct)
  /\ UNCHANGED lvars

UsageBalance == VBalance /\ UNCHANGED lvars

UsageNext == UsageBegin \/ UsageBalance

\* validateWalletUsage calls
UsageSpec == UsageInit /\ [][UsageNext]_vars

Stream == (\E h \in Handles, id \in StreamIds : StreamBegin(h, id)) /\ UNCHANGED lvars

Lookup ==
  /\ \E h \in Handles, thrown \in {"none", "initial", "confirm"} : StreamLookup(h, thrown)
  /\ UNCHANGED lvars

Close == (\E h \in Handles : ClientClose(h)) /\ UNCHANGED lvars

HeartbeatFailure == (\E h \in Handles : HeartbeatFails(h)) /\ UNCHANGED lvars

BroadcastUpdate ==
  /\ \E orderId \in Keys, throwers \in SUBSET Handles : Broadcast(orderId, throwers)
  /\ UNCHANGED lvars

EventNext == Stream \/ Lookup \/ Close \/ HeartbeatFailure \/ BroadcastUpdate

\* SSE subscriptions to one order and broadcasts of its updates
EventSpec == EventInit /\ [][EventNext]_vars

\* one stored order whose status requests and subscriptions are to come
LiveInit ==
  /\ IdleInit
  /\ clients = NoClients
  /\ orders = [o \in OrderIds |->
                 IF o = 1 THEN NewOrder(1, minOrderAmountForReferral, TRUE)
                 ELSE AbsentOrder]
  /\ users = [u \in UserIds |-> NewUserDoc(NoUser)]
  /\ hist = NoHist

NoBroadcastPending == \A r \in Slots : ~pend[r].active

LiveBegin ==
  /\ NoRequestActive
  /\ NoBroadcastPending
  /\ hist.okCount[1] < MaxUpdates
  /\ \E h \in Controllers, t \in StatusInputs : BeginStatus(1, h, 1, t)
  /\ UNCHANGED <<uvars, evars, lvars>>

LiveSave == \E r \in Slots, id \in Keys : SaveAndQueue(r, id)

LiveBroadcast ==
  \E r \in Slots, throwers \in SUBSET Handles : BroadcastStatus(r, throwers)

LiveLookup == \E h \in Handles, thrown \in {"none", "initial", "confirm"} : StreamAndSnapshot(h, thrown)

LiveNext ==
  \/ LiveBegin \/ Find \/ LiveSave \/ LiveBroadcast
  \/ Stream \/ LiveLookup \/ Close \/ HeartbeatFailure

\* status requests of the controllers on one order, one at a time, and
\* SSE subscriptions to it
LiveSpec == LiveInit /\ [][LiveNext]_vars

ApplyBegin == \E c \in Slots, u \in UserInputs, code \in CodeInputs : ABegin(c, u, code)

ApplyFindUser == \E c \in Slots : AFindUser(c)

ApplyFindReferrer == \E c \in Slots : AFindReferrer(c)

ApplySave == \E c \in Slots : ASave(c)

ApplyNext == ApplyBegin \/ ApplyFindUser \/ ApplyFindReferrer \/ ApplySave

\* applyReferralCode calls, concurrently
ApplySpec == WalletInit /\ [][ApplyNext]_vars

\* no stored order; every wallet holds the same balance
PlaceInit ==
  /\ IdleInit
  /\ clients = NoClients
  /\ orders = [o \in OrderIds |-> NoPlacedOrder]
  /\ \E b \in PlaceBalances :
       users = [u \in UserIds |-> [NewUserDoc(NoUser) EXCEPT !.walletBalance = b]]
  /\ hist = NoHist

PlaceBegin ==
  \E c \in Slots, u \in UserIds, items \in Carts, total \in PlaceTotals, w \in PlaceWallet :
    OBegin(c, u, items, total, w)

PlaceSeqBegin ==
  /\ NoPlaceActive
  /\ \E u \in UserIds, items \in Carts, total \in PlaceTotals, w \in PlaceWallet :
       OBegin(1, u, items, total, w)

PlaceDuplicateCheck == \E c \in Slots : ODuplicateCheck(c)

PlaceValidate == \E c \in Slots : OValidate(c)

PlaceAfterDebit == \E c \in Slots : OAfterDebit(c)

PlaceCount == \E c \in Slots : OCount(c)

PlaceSave == \E c \in Slots : OSave(c)

WindowPasses == \E o \in OrderIds : Age(o)

LookupBoth == \E id \in IdInputs : Resolve(id)

PlaceSteps ==
  \/ PlaceDuplicateCheck \/ PlaceValidate \/ WalletFind \/ WalletSaveUser
  \/ PlaceAfterDebit \/ PlaceCount \/ PlaceSave \/ RewardFindUser
  \/ WindowPasses \/ LookupBoth

PlaceSeqNext == PlaceSeqBegin \/ PlaceSteps

PlaceNext == PlaceBegin \/ PlaceSteps

\* createOrder requests, one at a time, and lookups of the stored orders
PlaceSeqSpec == PlaceInit /\ [][PlaceSeqNext]_vars

\* createOrder requests, concurrently
PlaceSpec == PlaceInit /\ [][PlaceNext]_vars

\* ------------------------------------------------ order state machine claims
\* the transition table as the specification prints it
ClaimTable ==
  (RECEIVED :> {CONFIRMED, CANCELLED}) @@
  (CONFIRMED :> {PREPARING, CANCELLED}) @@
  (PREPARING :> {READY, CANCELLED}) @@
  (READY :> {OUT_FOR_DELIVERY, CANCELLED}) @@
  (OUT_FOR_DELIVERY :> {COMPLETED}) @@
  (COMPLETED :> {}) @@
  (CANCELLED :> {})

Terminal == {COMPLETED, CANCELLED}

\* slot r's request ends in this step
Completes(r) == req[r].pc # "idle" /\ req'[r].pc = "idle"

\* C1: a controller's status update of an order in status c to a status t of
\* the status set succeeds and stores t if t is in the table's set of c, and
\* otherwise fails as an invalid transition and leaves the status at c.
C1_SucceedsIffAllowed ==
  [][\A r \in Slots :
       (Completes(r) /\ req[r].handler \in Controllers
          /\ FindOrder(req[r].id) # NoOrder)
       => LET o == req[r].id
              c == orders[o].status
              t == req[r].target
          IN IF t \in ClaimTable[c]
               THEN res'.kind = "ok" /\ orders'[o].status = t
               ELSE res'.kind = "invalid_transition" /\ orders'[o].status = c]_vars

C1_Witness ==
  /\ res.kind = "ok" /\ res.from = RECEIVED /\ res.to = CONFIRMED
  /\ orders[res.id].status = CONFIRMED

\* C6: an accepted status request was validated against the status that is
\* stored when its write arrives, and its history entry is stored.
C6_Serialized ==
  [][\A r \in Slots :
       (Completes(r) /\ res'.kind = "ok" /\ res'.slot = r)
       => /\ req[r].from = orders[req[r].id].status
          /\ \E i \in DOMAIN orders'[req[r].id].statusHistory :
               orders'[req[r].id].statusHistory[i].status = req[r].target]_vars

\* C7: every change of an order's status is an edge of the table and comes
\* with exactly one appended statusHistory entry (after the creation entry
\* when the history was empty), whose status is the new status.
C7_EveryChangeIsRecordedEdge ==
  [][\A o \in OrderIds :
       orders'[o].status # orders[o].status
       => /\ orders'[o].status \in ClaimTable[orders[o].status]
          /\ LET h1 == orders[o].statusHistory
                 h2 == orders'[o].statusHistory
             IN \/ /\ Len(h2) = Len(h1) + 1
                   /\ SubSeq(h2, 1, Len(h1)) = h1
                   /\ h2[Len(h2)].status = orders'[o].status
                \/ /\ Len(h1) = 0 /\ Len(h2) = 2
                   /\ h2[1].status = orders[o].status
                   /\ h2[2].status = orders'[o].status]_vars

\* C8: the status and the statusHistory of an order that is COMPLETED or
\* CANCELLED never change again.
C8_TerminalIsFinal ==
  [][\A o \in OrderIds :
       orders[o].status \in Terminal
       => /\ orders'[o].status = orders[o].status
          /\ orders'[o].statusHistory = orders[o].statusHistory]_vars

\* C9: a controller's status update whose target is not in the table's set
\* of the current status answers with a failure that carries exactly that
\* set, and leaves the order as it was.
C9_FailureCarriesAllowed ==
  [][\A r \in Slots :
       (req[r].pc = "find" /\ req'[r] # req[r] /\ req[r].handler \in Controllers
          /\ FindOrder(req[r].id) # NoOrder
          /\ req[r].target \notin ClaimTable[orders[req[r].id].status])
       => /\ res'.kind = "invalid_transition"
          /\ res'.slot = r
          /\ res'.allowed = ClaimTable[orders[req[r].id].status]
          /\ orders' = orders]_vars

C9_Witness ==
  /\ res.kind = "invalid_transition"
  /\ res.from = CONFIRMED /\ res.to = COMPLETED
  /\ res.allowed = {PREPARING, CANCELLED}
  /\ orders[res.id].status = CONFIRMED

\* C10: an order created in RECEIVED with an empty statusHistory has, after
\* k >= 1 successful transitions by the controllers, k + 1 history entries,
\* the first of them RECEIVED.
C10_HistoryCountsTransitions ==
  \A o \in OrderIds :
    (orders[o].exists /\ hist.createdEmpty[o] /\ hist.svcCalls = 0
       /\ hist.okCount[o] > 0)
    => /\ Len(orders[o].statusHistory) = hist.okCount[o] + 1
       /\ orders[o].statusHistory[1].status = RECEIVED

\* ------------------------------------------------- wallet and referral claims
RECURSIVE SumLog(_, _, _)
\* the sum of the amounts of u's log entries of one type
SumLog(l, u, type) ==
  IF l = <<>> THEN 0
  ELSE (IF Head(l).user = u /\ Head(l).type = type THEN Head(l).amount ELSE 0)
       + SumLog(Tail(l), u, type)

NewUserBonusEntries(u) ==
  {i \in DOMAIN log :
     /\ log[i].user = u
     /\ log[i].type = CREDIT
     /\ log[i].reason = REFERRAL_BONUS_NEW_USER}

\* C2: when every credit and debit call so far has run to completion, one
\* at a time, each user's balance is the sum of the user's CREDIT entries
\* minus the sum of the user's DEBIT entries.
C2_BalanceIsLogSum ==
  NoCallActive
  => \A u \in UserIds :
       getWalletBalance(u) = SumLog(log, u, CREDIT) - SumLog(log, u, DEBIT)

\* C3: no balance is negative, and no update is lost: when no call is in
\* flight, a balance is what the calls that passed their checks credited
\* minus what they debited, so debits that both pass never take more than
\* the wallet held.
C3_NoLostUpdate ==
  \A u \in UserIds :
    /\ getWalletBalance(u) >= 0
    /\ NoCallActive => getWalletBalance(u) = hist.credited[u] - hist.debited[u]

Qualifying(o) ==
  /\ orders[o].exists
  /\ orders[o].user \in UserIds
  /\ users[orders[o].user].referredBy # NoUser
  /\ users[orders[o].user].hasUsedReferral
  /\ previousOrderCount(orders[o].user, o) = 0
  /\ orders[o].totalAmount >= minOrderAmountForReferral

\* C5: after two runs, one after the other, on a qualifying order the log
\* holds exactly one new-user bonus entry for the user, and the wallet
\* holds the bonus once.
C5_SecondRunCreditsNothing ==
  \A o \in OrderIds :
    (Qualifying(o) /\ hist.runsDone[o] >= 2)
    => /\ Cardinality(NewUserBonusEntries(orders[o].user)) = 1
       /\ getWalletBalance(orders[o].user) = referralBonusNewUser

\* C11: a debit of more than the balance ends with the insufficient-balance
\* error, which the caller gets, and no step of the failed call changes a
\* balance or the log.
C11_FailedDebitChangesNothing ==
  [][\A c \in Slots :
       /\ (wcall[c].pc = "find" /\ wcall[c].op = DEBIT /\ wcall[c].user \in UserIds
             /\ wcall[c].amount > users[wcall[c].user].walletBalance)
          => /\ wcall'[c].pc = "done"
             /\ wcall'[c].result = "InsufficientBalance"
             /\ users' = users /\ log' = log
       /\ (wcall[c].pc = "done" /\ wcall[c].result = "InsufficientBalance")
          => /\ wres'.slot = c /\ wres'.result = "InsufficientBalance"
             /\ users' = users /\ log' = log]_vars

C11_Witness ==
  /\ wres.result = "InsufficientBalance" /\ wres.op = DEBIT
  /\ wres.user \in UserIds
  /\ users[wres.user].walletBalance > 0
  /\ wres.amount > users[wres.user].walletBalance

\* C12: a credit of a positive amount to a user that exists returns a
\* success result with newBalance = previousBalance + amount, stores
\* newBalance, and adds one CREDIT entry whose balanceAfter is newBalance.
C12_CreditSucceeds ==
  (wres.slot # 0 /\ wres.op = CREDIT /\ wres.user \in UserIds /\ wres.amount > 0)
  => /\ wres.result = "ok"
     /\ wres.newBalance = wres.previousBalance + wres.amount
     /\ users[wres.user].walletBalance = wres.newBalance
     /\ log # <<>>
     /\ log[Len(log)].user = wres.user
     /\ log[Len(log)].type = CREDIT
     /\ log[Len(log)].balanceAfter = wres.newBalance

\* C13: when the calls so far have ended, returned or thrown, every amount
\* that was added to or taken from a balance has its log entry: a call
\* changed the balance and the log, or neither.
C13_BalanceAndLogMoveTogether ==
  NoCallActive
  => \A u \in UserIds :
       /\ hist.credited[u] = SumLog(log, u, CREDIT)
       /\ hist.debited[u] = SumLog(log, u, DEBIT)

\* C14: a credit or debit of an amount <= 0 ends with the invalid-amount
\* error, one of a positive amount for an id that names no user with the
\* user-not-found error; the caller gets the error, and no step of the
\* call changes a balance or the log.
C14_RejectedCallChangesNothing ==
  [][\A c \in Slots :
       /\ (wcall[c].pc = "idle" /\ wcall'[c].pc # "idle" /\ wcall'[c].amount <= 0)
          => /\ wcall'[c].pc = "done"
             /\ wcall'[c].result = "InvalidAmount"
             /\ users' = users /\ log' = log
       /\ (wcall[c].pc = "find" /\ wcall'[c] # wcall[c] /\ wcall[c].user \notin UserIds)
          => /\ wcall'[c].pc = "done"
             /\ wcall'[c].result = "UserNotFound"
             /\ users' = users /\ log' = log
       /\ (wcall[c].pc = "done" /\ wcall'[c] # wcall[c]
             /\ wcall[c].result \in {"InvalidAmount", "UserNotFound"})
          => /\ wres'.slot = c /\ wres'.result = wcall[c].result
             /\ users' = users /\ log' = log]_vars

\* a debit of an amount <= 0 on a wallet that holds money has returned
\* its error
C14_Witness ==
  /\ wres.result = "InvalidAmount" /\ wres.op = DEBIT /\ wres.amount <= 0
  /\ wres.user \in UserIds
  /\ users[wres.user].walletBalance > 0

\* the result the specification gives for a request, check by check
ClaimUsage(balance, requested, orderTotal, maxPercent) ==
  LET limit == CHOOSE m \in 0..(orderTotal * maxPercent) :
                 100 * m <= orderTotal * maxPercent /\ orderTotal * maxPercent < 100 * (m + 1)
  IN IF requested < 0 THEN "InvalidAmount"
     ELSE IF requested = 0 THEN "valid"
     ELSE IF requested > balance THEN "InsufficientBalance"
     ELSE IF requested > limit THEN "ExceedsPolicyLimit"
     ELSE IF requested > orderTotal THEN "ExceedsOrderTotal"
     ELSE "valid"

\* C15: validateWalletUsage reports the first violated check in the order
\* negative amount, zero amount (valid), balance, policy limit, order total;
\* a valid positive request carries maxAllowed = floor(orderTotal *
\* maxPercent / 100); no step of the call changes a balance or the log.
C15_FirstViolatedCheck ==
  [][/\ vcall' # vcall => (users' = users /\ log' = log)
     /\ (vcall' # vcall /\ vcall'.pc = "done"
           /\ (vcall'.user \in UserIds \/ vcall'.walletAmount <= 0))
        => LET v == vcall'
               balance == IF v.user \in UserIds THEN users[v.user].walletBalance ELSE 0
           IN /\ v.result = ClaimUsage(balance, v.walletAmount, v.orderTotal,
                                       v.maxPercentage)
              /\ (v.result = "valid" /\ v.walletAmount > 0)
                 => /\ 100 * v.maxAllowed <= v.orderTotal * v.maxPercentage
                    /\ v.orderTotal * v.maxPercentage < 100 * (v.maxAllowed + 1)]_vars

\* (60, 100, 50) on a wallet that holds at least 60
C15_Witness ==
  /\ vcall.pc = "done" /\ vcall.result = "ExceedsPolicyLimit"
  /\ vcall.walletAmount = 60 /\ vcall.orderTotal = 100 /\ vcall.maxPercentage = 50
  /\ vcall.user \in UserIds
  /\ users[vcall.user].walletBalance >= 60

\* ------------------------------------------------ referral ordering claims
\* C16: a run whose new-user credit ended in an error ends there, with no
\* balance, counter, flag or log entry changed by that step, and a run
\* reaches the referrer's credit only when the new user's credit has
\* written its log entry.
C16_ReferrerOnlyAfterNewUser ==
  [][\A p \in Slots :
       /\ (proc[p].pc = "creditNewUser" /\ wcall[p].pc = "done"
             /\ wcall[p].result # "ok" /\ proc'[p] # proc[p])
          => /\ proc'[p].pc = "idle"
             /\ wcall'[p].pc = "idle"
             /\ users' = users /\ log' = log
             /\ ~users'[proc[p].user].referralRewarded
       /\ (proc'[p].pc = "creditReferrer" \/ wcall'[p].reason = REFERRAL_BONUS_REFERRER)
          => \E i \in DOMAIN log :
               /\ log[i].user = proc'[p].user
               /\ log[i].reason = REFERRAL_BONUS_NEW_USER]_vars

\* a run on a referred user's order ended after the new user's credit
\* failed; the referrer has nothing
C16_Witness ==
  /\ NoRunActive
  /\ \E o \in OrderIds :
       /\ Qualifying(o) /\ hist.runsDone[o] >= 1
       /\ hist.credited[orders[o].user] >= referralBonusNewUser
       /\ LET r == users[orders[o].user].referredBy
          IN /\ users[r].walletBalance = 0
             /\ users[r].referralCount = 0
             /\ users[r].referralEarnings = 0
       /\ ~users[orders[o].user].referralRewarded
  /\ \A i \in DOMAIN log : log[i].reason # REFERRAL_BONUS_REFERRER

\* C17: the step that stores an order answers with the success response,
\* and no step of a reward run, whatever its outcome, changes or removes a
\* stored order.
C17_OrderSurvivesReward ==
  [][\A o \in OrderIds :
       /\ (~orders[o].exists /\ orders'[o].exists)
          => (res'.kind = "created" /\ res'.id = o)
       /\ orders[o].exists => orders'[o] = orders[o]]_vars

\* the run of a stored order ended with the error of the new user's credit
C17_Witness ==
  \E o \in OrderIds :
    /\ orders[o].exists /\ orders[o].status = RECEIVED
    /\ Qualifying(o)
    /\ hist.runsDone[o] >= 1
    /\ hist.credited[orders[o].user] >= referralBonusNewUser
    /\ proc[1].pc = "idle" /\ proc[2].pc = "idle"

\* ------------------------------------------------------ event stream claims
\* C18: no Set of the registry holds more than the maximum of handles, and
\* no step adds a handle to a Set that holds the maximum; the subscription
\* that finds the Set of the order code full is rejected.
C18_CapacityIsEnforced ==
  [][/\ \A k \in Keys :
          /\ Size(clients'[k]) <= maxClients
          /\ Size(clients[k]) >= maxClients => Size(clients'[k]) <= Size(clients[k])
     /\ \A h \in Handles :
          (conn[h].pc = "lookup" /\ conn'[h].pc # "lookup"
             /\ conn'[h].outcome \notin {"not_found", "write_failed"}
             /\ Size(clients[OrderCode]) >= maxClients)
          => /\ conn'[h].outcome = "max_connections"
             /\ clients'[OrderCode] = clients[OrderCode]]_vars

C18_Witness ==
  \E h \in Handles :
    /\ conn[h].outcome = "max_connections"
    /\ Size(clients[OrderCode]) = maxClients
    /\ h \notin Range(clients[OrderCode].list)

\* C19: a broadcast writes exactly once to every handle that is subscribed
\* to the key when it starts, and to no other; the handles whose write
\* threw are removed from the Set of the key, and only those.
C19_EveryHandleOnce ==
  [][bcast'.key \in Keys
     => LET k == bcast'.key
            before == clients[k].list
        IN /\ \A h \in Range(before) :
                Cardinality({i \in DOMAIN bcast'.writes : bcast'.writes[i] = h}) = 1
           /\ Range(bcast'.writes) \subseteq Range(before)
           /\ Range(clients'[k].list) = Range(before) \ bcast'.threw]_vars

\* the write to the first handle of two threw, and the second got its write
C19_Witness ==
  /\ bcast.key \in Keys
  /\ Len(bcast.before) = 2
  /\ bcast.threw = {bcast.before[1]}
  /\ bcast.writes = bcast.before
  /\ clients[bcast.key].list = <<bcast.before[2]>>

\* C20: a handle whose connection is closed, or whose response was ended,
\* is in no Set of the registry.
C20_NoClosedHandleRetained ==
  \A h \in Handles :
    (conn[h].closed \/ conn[h].pc = "ended")
    => \A k \in Keys : h \notin Range(clients[k].list)

\* C22: no key of the registry is mapped to an empty Set, and a broadcast
\* on one key, with the removals it makes, leaves the Set of every other
\* key as it was.
C22_NoEmptySet ==
  [][/\ \A k \in Keys : clients'[k].has => Size(clients'[k]) > 0
     /\ bcast'.key \in Keys
        => \A k \in Keys \ {bcast'.key} : clients'[k] = clients[k]]_vars

\* the only handle of the order connected and closed again, and both
\* entries are gone
C22_Witness ==
  /\ \A k \in Keys : ~clients[k].has
  /\ \E h \in Handles :
       conn[h].outcome = "connected" /\ conn[h].closed /\ ~conn[h].heartbeat

C26_TimestampsFollowStatus ==
  \A o \in OrderIds :
    orders[o].exists
    => /\ (\E i \in DOMAIN orders[o].statusHistory :
             orders[o].statusHistory[i].status = READY) => orders[o].preparedAt
       /\ orders[o].status = COMPLETED => orders[o].deliveredAt
       /\ orders[o].status = CANCELLED => orders[o].cancelledAt

\* C29: when no run is in flight, the new user of a referral has been
\* credited the bonus exactly if the referrer has been credited, the
\* referrer's counters include the referral and the new user is flagged.
C29_NeverHalfPaid ==
  NoRunActive
  => \A u \in UserIds :
       users[u].referredBy # NoUser
       => LET r == users[u].referredBy
              newUserPaid == hist.credited[u] > 0 \/ NewUserBonusEntries(u) # {}
              referrerPaid ==
                /\ \E i \in DOMAIN log :
                     log[i].user = r /\ log[i].reason = REFERRAL_BONUS_REFERRER
                /\ users[r].referralCount > 0
                /\ users[r].referralEarnings >= referralBonusReferrer
                /\ users[u].referralRewarded
          IN newUserPaid <=> referrerPaid

\* ------------------------------------------------- live update claims
\* handles whose stream is open
Subscribed == {h \in Handles : conn[h].pc = "streaming" /\ ~conn[h].closed}

\* C21: a status transition that is stored leaves a statusUpdate with the
\* new and the previous status to be broadcast, and the broadcast writes
\* to every handle whose stream is open, whichever key the request named.
C21_EveryTransitionIsBroadcast ==
  [][/\ hist'.okCount[1] > hist.okCount[1]
        => \E r \in Slots :
             /\ pend'[r].active
             /\ pend'[r].status = orders'[1].status
             /\ pend'[r].previousStatus = orders[1].status
     /\ \A r \in Slots :
          (pend[r].active /\ ~pend'[r].active)
          => \A h \in Subscribed : h \in Range(bcast'.writes)]_vars

\* C28: what an open stream has been sent is a chain (no statusUpdate
\* named a previousStatus other than the status sent before it), and with
\* no status request and no broadcast in flight its last status is the
\* stored one.
C28_SubscriberSeesEveryTransition ==
  \A h \in Subscribed :
    /\ ~seen[h].gap
    /\ (NoRequestActive /\ NoBroadcastPending) => seen[h].last = orders[1].status

\* ------------------------------------------- referral application claims
\* C23: no user is its own referrer, and a referredBy that is set is not
\* written again: no applyReferralCode call saves on a user whose
\* referredBy is set.
C23_ReferredByIsSetOnce ==
  [][\A u \in UserIds :
       /\ users'[u].referredBy # u
       /\ users[u].referredBy # NoUser
          => /\ users'[u].referredBy = users[u].referredBy
             /\ \A c \in Slots :
                  ~(acall[c].user = u /\ acall[c].pc = "save" /\ acall'[c].result = "ok")]_vars

\* ------------------------------------------------ order placement claims
\* stored orders that are one submission twice: same user, total and
\* items, both RECEIVED, the later one created in the window of the earlier
Twins ==
  {p \in OrderIds \X OrderIds :
     /\ p[1] < p[2]
     /\ orders[p[1]].exists /\ orders[p[2]].exists
     /\ orders[p[1]].recent /\ orders[p[2]].recent
     /\ orders[p[1]].status = RECEIVED /\ orders[p[2]].status = RECEIVED
     /\ orders[p[1]].user = orders[p[2]].user
     /\ orders[p[1]].totalAmount = orders[p[2]].totalAmount
     /\ itemsMatch(orders[p[1]].items, orders[p[2]].items)}

\* the wallet calls begun for submissions that repeat a stored order
RepeatDebits ==
  {c \in Slots :
     /\ ocall[c].pc = "debit"
     /\ \E o \in OrderIds :
          /\ orders[o].exists /\ orders[o].recent /\ orders[o].status = RECEIVED
          /\ orders[o].user = ocall[c].user
          /\ orders[o].totalAmount = ocall[c].totalAmount
          /\ itemsMatch(orders[o].items, ocall[c].items)}

\* C24: a submission that repeats a RECEIVED order of the window is
\* answered with the duplicate error, no second order is stored and no
\* debit is made for it, also when the submissions overlap.
C24_DuplicateIsRejected ==
  [][/\ \A c \in Slots :
          (ocall[c].pc = "dup" /\ ocall'[c] # ocall[c]
             /\ isDuplicate(ocall[c].user, ocall[c].items, ocall[c].totalAmount))
          => /\ ocall'[c].pc = "done" /\ ocall'[c].result = "duplicate"
             /\ orders' = orders /\ users' = users
     /\ Twins' = {}
     /\ users' # users => RepeatDebits = {}]_vars

RECURSIVE SumWalletUsed(_, _)
SumWalletUsed(n, u) ==
  IF n = 0 THEN 0
  ELSE SumWalletUsed(n - 1, u)
         + (IF orders[n].exists /\ orders[n].user = u THEN orders[n].walletUsed ELSE 0)

\* C30: with no createOrder request in flight, what has been debited from
\* a wallet is what the stored orders of the user record as walletUsed.
C30_DebitsMatchOrders ==
  NoPlaceActive
  => \A u \in UserIds : hist.debited[u] = SumWalletUsed(MaxOrders, u)

\* C27: for every identifier the lookup of the stream handler and the
\* lookup of the status handler find the same order or both none.
C27_LookupsAgree == lk.stream = lk.update

\* two orders are stored; the _id of one and the code of the other were
\* looked up and found
C27_Witness ==
  /\ \A o \in OrderIds : orders[o].exists
  /\ lk.stream # NoOrder
  /\ lk.id \in {ObjectIdOf(o) : o \in OrderIds} \cup {orders[o].orderId : o \in OrderIds}
====
